---- MODULE Spec2Model ----
(***************************************************************************)
(* Model of the expo-build-service HTTP server (buildHandler.go): the      *)
(* /build job pipeline (authenticate, validate, workspace, clone, npm      *)
(* install, platform switch, log streamer, eas build, artifact serving,    *)
(* deferred cleanup) and the /update trigger with its background script.   *)
(*                                                                         *)
(* Sizes are counted in units: one log line, one error text and one        *)
(* artifact chunk are one unit of response body each.                      *)
(***************************************************************************)
EXTENDS Integers, Sequences, FiniteSets, TLC

\* ------------------------------------------------------------------ bounds
NumJobs == 1
NumUpdates == 2
MaxArtifact == 2
NumBuilders == 3
MaxMinute == 2
MaxSuffix == 2

Jobs == 1..NumJobs
Updates == 1..NumUpdates
Builders == 1..NumBuilders
Suffixes == 0..MaxSuffix

\* ------------------------------------------------------- program constants
StatusOK == 200
StatusBadRequest == 400
StatusUnauthorized == 401
StatusInternalServerError == 500
\* `tail -f` prints the last ten lines of the file before following it
TailLines == 10

ApkType == "application/vnd.android.package-archive"
OctetType == "application/octet-stream"
TextType == "text/plain; charset=utf-8"
NoLength == -1

\* ------------------------------------------------------------------ inputs
\* the two configured secrets, and the Authorization headers a request may
\* carry: none, the /build token, the /update token, a token with no secret
BuildSecret == "tok"
UpdateSecret == "key"
AuthHeaders == {"", "Bearer ", "Bearer tok", "Bearer key"}
\* repo_url as a sequence of characters
RepoURLs == {<<>>, <<"u">>, <<"u", ";">>, <<"&", "u">>}
PlatformInputs == {"", "android", "ios", "windows"}
PackagePaths == {"", "app"}
BranchEnvs == {"", "main", "develop"}

VARIABLES
    authToken,        \* os.Getenv("AUTH_TOKEN")
    updateAuthToken,  \* os.Getenv("UPDATE_AUTH_TOKEN")
    defaultCloneBranch, \* config.DefaultCloneBranch, set by loadConfig
    log,              \* the shared server.log, a sequence of line kinds
    pc,               \* position of each /build request's handler
    req,              \* the request: Authorization header and decoded body
    ctxDone,          \* the job's ctx (deadline or r.Context()) is done
    clientGone,       \* the client closed the connection
    exit,             \* the return the handler took, "none" while it runs
    workspace,        \* tempDir: "none", "present" or "removed"
    proc,             \* external processes of the job: git, npm, eas, tail
    hdr,              \* w.Header(): the header map before it is sent
    resp,             \* what went on the wire: status line, headers, body
    artifact,         \* size of the built file (0: no file) and bytes sent
    done,             \* the done channel: "none", "open", "closed"
    spc,              \* position of the tailLogFile goroutine
    spos,             \* lines of log the tail process has delivered
    lateWrite,        \* the streamer called w.Write after the handler returned
    branch,           \* the --branch argument of the job's git clone, "" before
    closes,           \* how many times close(done) ran
    releases,         \* how many times the deferred os.RemoveAll ran
    upc,              \* position of each /update request's handler
    utoken,           \* Authorization header of each /update request
    ustatus,          \* status answered to each /update request
    script,           \* the background update script of each /update request
    afterUpdate,      \* a script had finished when the /update request came in
    ugone,            \* the client of the /update request closed the connection
    now,              \* time.Now() in minutes
    wpc,              \* position of each concurrent handler in its use of tempDir
    buildID,          \* generateTimestampID() of each concurrent handler
    tempDir,          \* the path os.MkdirTemp gave each handler, <<>> before
    tmpDirs,          \* the build-* directories that exist in os.TempDir()
    server            \* main: "serving", "shutdown" (in srv.Shutdown), "exited"
                      \* (main returned) or "fatal" (log.Fatalf: os.Exit(1))

buildVars == <<pc, exit, req, ctxDone, clientGone, workspace, proc, hdr, resp,
               artifact, done, spc, spos, lateWrite, closes, releases, branch>>
updateVars == <<upc, utoken, ustatus, script, afterUpdate, ugone>>
dirVars == <<now, wpc, buildID, tempDir, tmpDirs>>
vars == <<authToken, updateAuthToken, defaultCloneBranch, log, buildVars,
         updateVars, dirVars, server>>

\* ----------------------------------------------------------------- helpers
Max(a, b) == IF a > b THEN a ELSE b

\* strings.ContainsAny(s, chars)
ContainsAny(s, chars) == \E i \in 1..Len(s) : s[i] \in chars

\* a variant of TokenMatches that also lets a bearer header without a secret in
TokenMatchesOrEmpty(token, expectedToken) ==
    token = "Bearer " \o expectedToken \/ token = "Bearer "

\* the comparison of authenticate and updateHandler: token != "Bearer "+expected
TokenMatches(token, expectedToken) == token = "Bearer " \o expectedToken

NoRequest == [token |-> "", jsonOk |-> FALSE, repoURL |-> <<>>,
              platform |-> "", packagePath |-> ""]
NoProcs == [git |-> "none", npm |-> "none", eas |-> "none", tail |-> "none"]
NoHeaders == [ctype |-> "", clen |-> NoLength]
NoResponse == [committed |-> FALSE, status |-> 0, ctype |-> "", clen |-> NoLength,
               lines |-> 0, art |-> 0, err |-> 0, diag |-> FALSE]

\* bytes of body that went on the wire
BodyLen(r) == r.lines + r.art + r.err

\* log.Println / log.Printf: one line appended to the shared log file
LogLine(l, kind) == Append(l, kind)

\* response.WriteHeader(code): the first call sends status and header map,
\* a later one is superfluous and changes nothing
WriteHeader(r, h, code) ==
    IF r.committed THEN r
    ELSE [r EXCEPT !.committed = TRUE, !.status = code,
                   !.ctype = IF h.ctype = "" THEN TextType ELSE h.ctype,
                   !.clen = h.clen]

\* response.Write fits: a declared Content-Length is never exceeded
\* (http.ErrContentLength)
WriteFits(r, n) == r.clen = NoLength \/ BodyLen(r) + n <= r.clen

\* http.Error(w, msg, code): text/plain without Content-Length, WriteHeader(code),
\* then the message as body; the write's error is ignored
HttpError(r, code) ==
    LET h == [ctype |-> TextType, clen |-> NoLength]
        c == WriteHeader(r, h, code)
    IN  IF WriteFits(c, 1) THEN [c EXCEPT !.err = @ + 1] ELSE c

\* getEnv(key, defaultValue), value being os.Getenv(key)
GetEnv(value, defaultValue) == IF value = "" THEN defaultValue ELSE value

\* the state after loadConfig and the registration of the handlers, where the
\* environment has DEFAULT_CLONE_BRANCH = envBranch ("" for unset)
InitWith(envBranch) ==
    /\ authToken = BuildSecret
    /\ updateAuthToken = UpdateSecret
    /\ defaultCloneBranch = GetEnv(envBranch, "main")
    /\ log = <<>>
    /\ pc = [j \in Jobs |-> "idle"]
    /\ exit = [j \in Jobs |-> "none"]
    /\ req = [j \in Jobs |-> NoRequest]
    /\ ctxDone = [j \in Jobs |-> FALSE]
    /\ clientGone = [j \in Jobs |-> FALSE]
    /\ workspace = [j \in Jobs |-> "none"]
    /\ proc = [j \in Jobs |-> NoProcs]
    /\ hdr = [j \in Jobs |-> NoHeaders]
    /\ resp = [j \in Jobs |-> NoResponse]
    /\ artifact = [j \in Jobs |-> [size |-> 0, sent |-> 0]]
    /\ done = [j \in Jobs |-> "none"]
    /\ spc = [j \in Jobs |-> "none"]
    /\ spos = [j \in Jobs |-> 0]
    /\ lateWrite = [j \in Jobs |-> FALSE]
    /\ branch = [j \in Jobs |-> ""]
    /\ closes = [j \in Jobs |-> 0]
    /\ releases = [j \in Jobs |-> 0]
    /\ upc = [u \in Updates |-> "idle"]
    /\ utoken = [u \in Updates |-> ""]
    /\ ustatus = [u \in Updates |-> 0]
    /\ script = [u \in Updates |-> "none"]
    /\ afterUpdate = [u \in Updates |-> FALSE]
    /\ ugone = [u \in Updates |-> FALSE]
    /\ now = 0
    /\ wpc = [b \in Builders |-> "idle"]
    /\ buildID = [b \in Builders |-> 0]
    /\ tempDir = [b \in Builders |-> <<>>]
    /\ tmpDirs = {}
    /\ server = "serving"

\* the server started without DEFAULT_CLONE_BRANCH in its environment
Init == InitWith("")

\* the server started with any of the values of DEFAULT_CLONE_BRANCH
InitAnyBranch == \E envBranch \in BranchEnvs : InitWith(envBranch)

\* a variant of ReleaseWorkspace that leaves the directory in place
ReleaseWorkspaceSkipped(j) == UNCHANGED <<workspace, releases>>

\* the deferred call of buildHandler, run at every return after MkdirTemp:
\* os.RemoveAll(tempDir), taken to succeed (its error is only logged)
ReleaseWorkspace(j) ==
    /\ workspace' = [workspace EXCEPT ![j] = "removed"]
    /\ releases' = [releases EXCEPT ![j] = @ + 1]

\* ---------------------------------------------------------------- /build
\* authenticate: logs the received and the expected token, answers 401 on a
\* mismatch, else calls buildHandler (the body is not read before Decode)
Authenticate(j) ==
    /\ pc[j] = "idle"
    /\ \E token \in AuthHeaders :
        /\ req' = [req EXCEPT ![j].token = token]
        /\ IF TokenMatches(token, authToken)
           THEN /\ log' = LogLine(LogLine(log, "info"), "info")
                /\ pc' = [pc EXCEPT ![j] = "decode"]
                /\ UNCHANGED <<resp, exit>>
           ELSE /\ log' = LogLine(LogLine(LogLine(log, "info"), "info"), "info")
                /\ resp' = [resp EXCEPT ![j] = HttpError(@, StatusUnauthorized)]
                /\ exit' = [exit EXCEPT ![j] = "unauthorized"]
                /\ pc' = [pc EXCEPT ![j] = "returned"]
    /\ UNCHANGED <<authToken, updateAuthToken, defaultCloneBranch, ctxDone,
                   clientGone,
                   workspace, releases,
                   proc, hdr, artifact, done, closes, spc, spos, lateWrite, branch,
                   updateVars, dirVars, server>>

\* an error exit of buildHandler: log.Println(msg, err), http.Error(w, msg, code),
\* return; `kind` is "diag" when err carries a process's captured output
ErrorReturn(j, site, kind, code) ==
    /\ log' = LogLine(log, kind)
    /\ resp' = [resp EXCEPT ![j] = HttpError(@, code)]
    /\ exit' = [exit EXCEPT ![j] = site]
    /\ pc' = [pc EXCEPT ![j] = "returned"]

\* the bodies a request can carry: one that does not decode (req keeps its zero
\* values), or a JSON object with the three fields, each possibly empty or absent
Bodies ==
    {[jsonOk |-> FALSE, repoURL |-> <<>>, platform |-> "", packagePath |-> ""]}
    \cup [jsonOk : {TRUE}, repoURL : RepoURLs, platform : PlatformInputs,
          packagePath : PackagePaths]

\* a variant of MissingRequired that forgets package_path
MissingRequiredNoPath(r) == r.repoURL = <<>> \/ r.platform = ""

\* req.RepoURL == "" || req.Platform == "" || req.PackagePath == ""
MissingRequired(r) == r.repoURL = <<>> \/ r.platform = "" \/ r.packagePath = ""

\* json.NewDecoder(r.Body).Decode(&req), then the check of the required fields
DecodeAndValidate(j) ==
    /\ pc[j] = "decode"
    /\ \E body \in Bodies :
        /\ req' = [req EXCEPT ![j] = [token |-> req[j].token, jsonOk |-> body.jsonOk,
                                      repoURL |-> body.repoURL,
                                      platform |-> body.platform,
                                      packagePath |-> body.packagePath]]
        /\ IF ~body.jsonOk
           THEN ErrorReturn(j, "bad_request", "info", StatusBadRequest)
           ELSE IF MissingRequired(body)
           THEN ErrorReturn(j, "bad_request", "info", StatusBadRequest)
           ELSE /\ pc' = [pc EXCEPT ![j] = "mkdir"]
                /\ UNCHANGED <<log, resp, exit>>
    /\ UNCHANGED <<authToken, updateAuthToken, defaultCloneBranch, ctxDone,
                   clientGone,
                   workspace, releases,
                   proc, hdr, artifact, done, closes, spc, spos, lateWrite, branch,
                   updateVars, dirVars, server>>

\* os.MkdirTemp("", "build-"+buildID) and the defer of os.RemoveAll
MkdirTemp(j) ==
    /\ pc[j] = "mkdir"
    /\ \E ok \in BOOLEAN :
        IF ok
        THEN /\ workspace' = [workspace EXCEPT ![j] = "present"]
             /\ UNCHANGED releases
             /\ pc' = [pc EXCEPT ![j] = "clone"]
             /\ UNCHANGED <<log, resp, exit>>
        ELSE /\ ErrorReturn(j, "mkdir_failed", "info", StatusInternalServerError)
             /\ UNCHANGED <<workspace, releases>>
    /\ UNCHANGED <<authToken, updateAuthToken, defaultCloneBranch, req,
                   ctxDone, clientGone,
                   proc, hdr, artifact, done, closes, spc, spos, lateWrite, branch,
                   updateVars, dirVars, server>>

\* a variant of InvalidRepoURL that filters ";" only
InvalidRepoURLSemicolonOnly(repoURL) == ContainsAny(repoURL, {";"})

\* strings.ContainsAny(repoURL, ";&")
InvalidRepoURL(repoURL) == ContainsAny(repoURL, {";", "&"})

\* cloneOrUpdateRepo up to cloneCmd.Run starting git: the ";&" filter, and
\* exec.CommandContext refusing to start under a context that is already done
CloneStart(j) ==
    /\ pc[j] = "clone"
    /\ IF InvalidRepoURL(req[j].repoURL) \/ ctxDone[j]
       THEN /\ ErrorReturn(j, "fetch_failed", "info", StatusInternalServerError)
            /\ ReleaseWorkspace(j)
            /\ UNCHANGED <<proc, branch>>
       ELSE /\ proc' = [proc EXCEPT ![j].git = "running"]
            /\ branch' = [branch EXCEPT ![j] = "main"]
            /\ pc' = [pc EXCEPT ![j] = "cloning"]
            /\ UNCHANGED <<log, resp, exit, workspace, releases>>
    /\ UNCHANGED <<authToken, updateAuthToken, defaultCloneBranch, req,
                   ctxDone, clientGone,
                   hdr, artifact, done, closes, spc, spos, lateWrite,
                   updateVars, dirVars, server>>

\* git exits on its own and cloneCmd.Run returns
CloneExit(j) ==
    /\ pc[j] = "cloning"
    /\ \E ok \in BOOLEAN :
        /\ proc' = [proc EXCEPT ![j].git = IF ok THEN "exited" ELSE "failed"]
        /\ IF ok
           THEN /\ pc' = [pc EXCEPT ![j] = "install"]
                /\ UNCHANGED <<log, resp, exit, workspace, releases>>
           ELSE /\ ErrorReturn(j, "fetch_failed", "diag", StatusInternalServerError)
                /\ ReleaseWorkspace(j)
    /\ UNCHANGED <<authToken, updateAuthToken, defaultCloneBranch, req,
                   ctxDone, clientGone,
                   hdr, artifact, done, closes, spc, spos, lateWrite, branch,
                   updateVars, dirVars, server>>

\* a variant of CloneKilled that takes the killed clone for a finished one
CloneKilledGoesOn(j) ==
    /\ pc[j] = "cloning"
    /\ ctxDone[j]
    /\ proc' = [proc EXCEPT ![j].git = "killed"]
    /\ pc' = [pc EXCEPT ![j] = "install"]
    /\ UNCHANGED <<log, resp, exit, workspace, releases>>
    /\ UNCHANGED <<authToken, updateAuthToken, defaultCloneBranch, req,
                   ctxDone, clientGone,
                   hdr, artifact, done, closes, spc, spos, lateWrite, branch,
                   updateVars, dirVars, server>>

\* ctx is done while git runs: exec.CommandContext kills it, Run returns an error
CloneKilled(j) ==
    /\ pc[j] = "cloning"
    /\ ctxDone[j]
    /\ proc' = [proc EXCEPT ![j].git = "killed"]
    /\ ErrorReturn(j, "fetch_failed", "diag", StatusInternalServerError)
    /\ ReleaseWorkspace(j)
    /\ UNCHANGED <<authToken, updateAuthToken, defaultCloneBranch, req,
                   ctxDone, clientGone,
                   hdr, artifact, done, closes, spc, spos, lateWrite, branch,
                   updateVars, dirVars, server>>

\* runNpmInstall up to installCmd.CombinedOutput starting npm
NpmStart(j) ==
    /\ pc[j] = "install"
    /\ IF ctxDone[j]
       THEN /\ ErrorReturn(j, "install_failed", "info", StatusInternalServerError)
            /\ ReleaseWorkspace(j)
            /\ UNCHANGED proc
       ELSE /\ proc' = [proc EXCEPT ![j].npm = "running"]
            /\ pc' = [pc EXCEPT ![j] = "installing"]
            /\ UNCHANGED <<log, resp, exit, workspace, releases>>
    /\ UNCHANGED <<authToken, updateAuthToken, defaultCloneBranch, req,
                   ctxDone, clientGone,
                   hdr, artifact, done, closes, spc, spos, lateWrite, branch,
                   updateVars, dirVars, server>>

\* a variant of NpmExit that goes on to the build after a failed install
NpmExitIgnoringFailure(j) ==
    /\ pc[j] = "installing"
    /\ \E ok \in BOOLEAN :
        /\ proc' = [proc EXCEPT ![j].npm = IF ok THEN "exited" ELSE "failed"]
        /\ pc' = [pc EXCEPT ![j] = "switch"]
        /\ UNCHANGED <<log, resp, exit, workspace, releases>>
    /\ UNCHANGED <<authToken, updateAuthToken, defaultCloneBranch, req,
                   ctxDone, clientGone,
                   hdr, artifact, done, closes, spc, spos, lateWrite, branch,
                   updateVars, dirVars, server>>

\* npm exits on its own and CombinedOutput returns
NpmExit(j) ==
    /\ pc[j] = "installing"
    /\ \E ok \in BOOLEAN :
        /\ proc' = [proc EXCEPT ![j].npm = IF ok THEN "exited" ELSE "failed"]
        /\ IF ok
           THEN /\ pc' = [pc EXCEPT ![j] = "switch"]
                /\ UNCHANGED <<log, resp, exit, workspace, releases>>
           ELSE /\ ErrorReturn(j, "install_failed", "diag", StatusInternalServerError)
                /\ ReleaseWorkspace(j)
    /\ UNCHANGED <<authToken, updateAuthToken, defaultCloneBranch, req,
                   ctxDone, clientGone,
                   hdr, artifact, done, closes, spc, spos, lateWrite, branch,
                   updateVars, dirVars, server>>

\* a variant of NpmKilled that gives up waiting without killing npm
NpmAbandoned(j) ==
    /\ pc[j] = "installing"
    /\ ctxDone[j]
    /\ ErrorReturn(j, "install_failed", "diag", StatusInternalServerError)
    /\ ReleaseWorkspace(j)
    /\ UNCHANGED <<authToken, updateAuthToken, defaultCloneBranch, req,
                   ctxDone, clientGone, proc,
                   hdr, artifact, done, closes, spc, spos, lateWrite, branch,
                   updateVars, dirVars, server>>

\* ctx is done while npm runs: the process is killed, CombinedOutput returns an error
NpmKilled(j) ==
    /\ pc[j] = "installing"
    /\ ctxDone[j]
    /\ proc' = [proc EXCEPT ![j].npm = "killed"]
    /\ ErrorReturn(j, "install_failed", "diag", StatusInternalServerError)
    /\ ReleaseWorkspace(j)
    /\ UNCHANGED <<authToken, updateAuthToken, defaultCloneBranch, req,
                   ctxDone, clientGone,
                   hdr, artifact, done, closes, spc, spos, lateWrite, branch,
                   updateVars, dirVars, server>>

\* the content type the switch on req.Platform picks, "" for the default case
ContentTypeOf(platform) ==
    CASE platform = "android" -> ApkType
      [] platform = "ios" -> OctetType
      [] OTHER -> ""

\* a variant of SelectPlatform that starts the streamer before the switch
SelectPlatformStreamerFirst(j) ==
    /\ pc[j] = "switch"
    /\ done' = [done EXCEPT ![j] = "open"]
    /\ spc' = [spc EXCEPT ![j] = "start"]
    /\ IF ContentTypeOf(req[j].platform) = ""
       THEN /\ ErrorReturn(j, "unsupported_platform", "info", StatusBadRequest)
            /\ ReleaseWorkspace(j)
            /\ UNCHANGED closes
       ELSE /\ pc' = [pc EXCEPT ![j] = "build"]
            /\ UNCHANGED <<log, resp, exit, workspace, releases, closes>>
    /\ UNCHANGED <<authToken, updateAuthToken, defaultCloneBranch, req,
                   ctxDone, clientGone,
                   proc, hdr, artifact, spos, lateWrite, branch, updateVars,
                   dirVars, server>>

\* the switch on req.Platform, then done := make(chan struct{}) and
\* go tailLogFile(w, ..., done)
SelectPlatform(j) ==
    /\ pc[j] = "switch"
    /\ IF ContentTypeOf(req[j].platform) = ""
       THEN /\ ErrorReturn(j, "unsupported_platform", "info", StatusBadRequest)
            /\ ReleaseWorkspace(j)
            /\ UNCHANGED <<done, closes, spc>>
       ELSE /\ done' = [done EXCEPT ![j] = "open"]
            /\ spc' = [spc EXCEPT ![j] = "start"]
            /\ pc' = [pc EXCEPT ![j] = "build"]
            /\ UNCHANGED <<log, resp, exit, workspace, releases, closes>>
    /\ UNCHANGED <<authToken, updateAuthToken, defaultCloneBranch, req,
                   ctxDone, clientGone,
                   proc, hdr, artifact, spos, lateWrite, branch, updateVars,
                   dirVars, server>>

\* an error exit of buildHandler after the streamer was started, first part:
\* log.Println(msg, err); http.Error and close(done) follow as steps of their
\* own, since the streamer runs between them
ErrorLogged(j, site, kind) ==
    /\ log' = LogLine(log, kind)
    /\ exit' = [exit EXCEPT ![j] = site]
    /\ pc' = [pc EXCEPT ![j] = "error"]

\* buildApp up to buildCmd.CombinedOutput starting eas: the platform was
\* accepted by the switch, so validPlatforms accepts it too
BuildStart(j) ==
    /\ pc[j] = "build"
    /\ IF ctxDone[j]
       THEN /\ ErrorLogged(j, "build_failed", "info")
            /\ UNCHANGED proc
       ELSE /\ proc' = [proc EXCEPT ![j].eas = "running"]
            /\ pc' = [pc EXCEPT ![j] = "building"]
            /\ UNCHANGED <<log, exit>>
    /\ UNCHANGED <<authToken, updateAuthToken, defaultCloneBranch, req,
                   ctxDone, clientGone,
                   workspace, releases,
                   hdr, resp, artifact, done, closes, spc, spos, lateWrite, branch,
                   updateVars, dirVars, server>>

\* a variant of BuildExit without the os.Stat check of the output file
BuildExitNoStat(j) ==
    /\ pc[j] = "building"
    /\ \E ok \in BOOLEAN, size \in 0..MaxArtifact :
        /\ proc' = [proc EXCEPT ![j].eas = IF ok THEN "exited" ELSE "failed"]
        /\ IF ~ok
           THEN /\ ErrorLogged(j, "build_failed", "diag")
                /\ UNCHANGED artifact
           ELSE /\ artifact' = [artifact EXCEPT ![j] = [size |-> size, sent |-> 0]]
                /\ pc' = [pc EXCEPT ![j] = "serve"]
                /\ UNCHANGED <<log, exit>>
    /\ UNCHANGED <<authToken, updateAuthToken, defaultCloneBranch, req,
                   ctxDone, clientGone,
                   workspace, releases,
                   hdr, resp, done, closes, spc, spos, lateWrite, branch,
                   updateVars, dirVars, server>>

\* eas exits on its own; buildApp then checks with os.Stat that the output file
\* exists (size 0 stands for no file)
BuildExit(j) ==
    /\ pc[j] = "building"
    /\ \E ok \in BOOLEAN, size \in 0..MaxArtifact :
        /\ proc' = [proc EXCEPT ![j].eas = IF ok THEN "exited" ELSE "failed"]
        /\ IF ~ok
           THEN /\ ErrorLogged(j, "build_failed", "diag")
                /\ UNCHANGED artifact
           ELSE IF size = 0
           THEN /\ ErrorLogged(j, "build_failed", "info")
                /\ UNCHANGED artifact
           ELSE /\ artifact' = [artifact EXCEPT ![j] = [size |-> size, sent |-> 0]]
                /\ pc' = [pc EXCEPT ![j] = "serve"]
                /\ UNCHANGED <<log, exit>>
    /\ UNCHANGED <<authToken, updateAuthToken, defaultCloneBranch, req,
                   ctxDone, clientGone,
                   workspace, releases,
                   hdr, resp, done, closes, spc, spos, lateWrite, branch,
                   updateVars, dirVars, server>>

\* ctx is done while eas runs: the process is killed, CombinedOutput returns an error
BuildKilled(j) ==
    /\ pc[j] = "building"
    /\ ctxDone[j]
    /\ proc' = [proc EXCEPT ![j].eas = "killed"]
    /\ ErrorLogged(j, "build_failed", "diag")
    /\ UNCHANGED <<authToken, updateAuthToken, defaultCloneBranch, req,
                   ctxDone, clientGone,
                   workspace, releases,
                   hdr, resp, artifact, done, closes, spc, spos, lateWrite, branch,
                   updateVars, dirVars, server>>

\* the three w.Header().Set calls, Content-Length from fileSize(builtFilePath),
\* then os.Open(builtFilePath)
ServeOpen(j) ==
    /\ pc[j] = "serve"
    /\ hdr' = [hdr EXCEPT ![j] = [ctype |-> ContentTypeOf(req[j].platform),
                                  clen |-> artifact[j].size]]
    /\ \E ok \in BOOLEAN :
        IF ok
        THEN /\ pc' = [pc EXCEPT ![j] = "copy"]
             /\ UNCHANGED <<log, exit>>
        ELSE ErrorLogged(j, "open_failed", "info")
    /\ UNCHANGED <<authToken, updateAuthToken, defaultCloneBranch, req,
                   ctxDone, clientGone,
                   workspace, releases,
                   proc, resp, artifact, done, closes, spc, spos, lateWrite, branch,
                   updateVars, dirVars, server>>

\* the outcomes of one w.Write of n units: TRUE for written; a write over the
\* declared Content-Length fails, a write to a closed connection may fail
WriteOutcomes(j, r, n) ==
    IF ~WriteFits(r, n) THEN {FALSE}
    ELSE IF clientGone[j] THEN {TRUE, FALSE}
    ELSE {TRUE}

\* io.Copy(w, file): one w.Write per chunk; the first write of a response sends
\* status 200 with the header map; an error ends the copy and is only logged
CopyChunk(j) ==
    /\ pc[j] = "copy"
    /\ artifact[j].sent < artifact[j].size
    /\ LET r == WriteHeader(resp[j], hdr[j], StatusOK)
       IN  \E ok \in WriteOutcomes(j, r, 1) :
            IF ok
            THEN /\ resp' = [resp EXCEPT ![j] = [r EXCEPT !.art = @ + 1]]
                 /\ artifact' = [artifact EXCEPT ![j].sent = @ + 1]
                 /\ UNCHANGED <<log, pc>>
            ELSE /\ resp' = [resp EXCEPT ![j] = r]
                 /\ log' = LogLine(log, "info")
                 /\ pc' = [pc EXCEPT ![j] = "closing"]
                 /\ UNCHANGED artifact
    /\ UNCHANGED <<authToken, updateAuthToken, defaultCloneBranch, exit, req,
                   ctxDone, clientGone,
                   workspace, releases,
                   proc, hdr, done, closes, spc, spos, lateWrite, branch,
                   updateVars, dirVars, server>>

\* an error exit after the streamer was started, second part:
\* http.Error(w, msg, http.StatusInternalServerError)
SendError(j) ==
    /\ pc[j] = "error"
    /\ resp' = [resp EXCEPT ![j] = HttpError(@, StatusInternalServerError)]
    /\ pc' = [pc EXCEPT ![j] = "closing"]
    /\ UNCHANGED <<authToken, updateAuthToken, defaultCloneBranch, log, exit,
                   req, ctxDone, clientGone,
                   workspace, releases, proc, hdr, artifact, done, closes,
                   spc, spos, lateWrite, branch,
                   updateVars, dirVars, server>>

\* a variant of CloseAndReturn that stops the streamer by a send on done
\* (done <- struct{}{}), which waits for the streamer to be at its select
CloseAndReturnBySend(j) ==
    /\ \/ pc[j] = "closing"
       \/ pc[j] = "copy" /\ artifact[j].sent = artifact[j].size
    /\ spc[j] = "select"
    /\ done' = [done EXCEPT ![j] = "closed"]
    /\ closes' = [closes EXCEPT ![j] = @ + 1]
    /\ pc' = [pc EXCEPT ![j] = "returned"]
    /\ exit' = [exit EXCEPT ![j] = IF @ = "none" THEN "served" ELSE @]
    /\ ReleaseWorkspace(j)
    /\ UNCHANGED <<authToken, updateAuthToken, defaultCloneBranch, log, req,
                   ctxDone, clientGone,
                   proc, hdr, resp, artifact, spc, spos, lateWrite, branch, updateVars,
                   dirVars, server>>

\* a variant of CloseAndReturn whose error returns forget close(done)
CloseAndReturnNoCloseOnError(j) ==
    /\ \/ pc[j] = "closing"
       \/ pc[j] = "copy" /\ artifact[j].sent = artifact[j].size
    /\ IF exit[j] = "none"
       THEN /\ done' = [done EXCEPT ![j] = "closed"]
            /\ closes' = [closes EXCEPT ![j] = @ + 1]
       ELSE UNCHANGED <<done, closes>>
    /\ pc' = [pc EXCEPT ![j] = "returned"]
    /\ exit' = [exit EXCEPT ![j] = IF @ = "none" THEN "served" ELSE @]
    /\ ReleaseWorkspace(j)
    /\ UNCHANGED <<authToken, updateAuthToken, defaultCloneBranch, log, req,
                   ctxDone, clientGone,
                   proc, hdr, resp, artifact, spc, spos, lateWrite, branch,
                   updateVars, dirVars, server>>

\* close(done) and return, after http.Error or after io.Copy has returned; the
\* deferred os.RemoveAll runs
CloseAndReturn(j) ==
    /\ \/ pc[j] = "closing"
       \/ pc[j] = "copy" /\ artifact[j].sent = artifact[j].size
    /\ done' = [done EXCEPT ![j] = "closed"]
    /\ closes' = [closes EXCEPT ![j] = @ + 1]
    /\ pc' = [pc EXCEPT ![j] = "returned"]
    /\ exit' = [exit EXCEPT ![j] = IF @ = "none" THEN "served" ELSE @]
    /\ ReleaseWorkspace(j)
    /\ UNCHANGED <<authToken, updateAuthToken, defaultCloneBranch, log, req,
                   ctxDone, clientGone,
                   proc, hdr, resp, artifact, spc, spos, lateWrite, branch,
                   updateVars, dirVars, server>>

InFlight(j) == pc[j] \notin {"idle", "returned"}

\* context.WithTimeout(r.Context(), config.BuildTimeout): the deadline passes
DeadlineExceeded(j) ==
    /\ InFlight(j)
    /\ ~ctxDone[j]
    /\ ctxDone' = [ctxDone EXCEPT ![j] = TRUE]
    /\ UNCHANGED <<authToken, updateAuthToken, defaultCloneBranch, log, pc,
                   exit, req, clientGone,
                   workspace, releases,
                   proc, hdr, resp, artifact, done, closes, spc, spos, lateWrite, branch,
                   updateVars, dirVars, server>>

\* the client closes the connection: r.Context() is cancelled
ClientDisconnect(j) ==
    /\ InFlight(j)
    /\ ~clientGone[j]
    /\ clientGone' = [clientGone EXCEPT ![j] = TRUE]
    /\ ctxDone' = [ctxDone EXCEPT ![j] = TRUE]
    /\ UNCHANGED <<authToken, updateAuthToken, defaultCloneBranch, log, pc,
                   exit, req,
                   workspace, releases,
                   proc, hdr, resp, artifact, done, closes, spc, spos, lateWrite, branch,
                   updateVars, dirVars, server>>

\* ------------------------------------------------------------ tailLogFile
\* exec.Command("tail", "-f", logFilePath), StdoutPipe and cmd.Start
TailStart(j) ==
    /\ spc[j] = "start"
    /\ \E ok \in BOOLEAN :
        IF ok
        THEN /\ proc' = [proc EXCEPT ![j].tail = "running"]
             /\ spos' = [spos EXCEPT ![j] = Max(0, Len(log) - TailLines)]
             /\ spc' = [spc EXCEPT ![j] = "select"]
             /\ UNCHANGED log
        ELSE /\ log' = LogLine(log, "info")
             /\ spc' = [spc EXCEPT ![j] = "exited"]
             /\ UNCHANGED <<proc, spos>>
    /\ UNCHANGED <<authToken, updateAuthToken, defaultCloneBranch, pc, exit,
                   req, ctxDone, clientGone,
                   workspace, releases, hdr, resp, artifact, done, closes,
                   lateWrite, branch,
                   updateVars, dirVars, server>>

\* the select at the head of the loop: done closed -> cmd.Process.Kill() and
\* return; default -> go on to reader.ReadString
StreamerSelect(j) ==
    /\ spc[j] = "select"
    /\ IF done[j] = "closed"
       THEN /\ proc' = [proc EXCEPT ![j].tail = "killed"]
            /\ spc' = [spc EXCEPT ![j] = "exited"]
       ELSE /\ spc' = [spc EXCEPT ![j] = "read"]
            /\ UNCHANGED proc
    /\ UNCHANGED <<authToken, updateAuthToken, defaultCloneBranch, log, pc,
                   exit, req, ctxDone, clientGone,
                   workspace, releases, hdr, resp, artifact, done, closes,
                   spos, lateWrite, branch,
                   updateVars, dirVars, server>>

\* reader.ReadString('\n') returns the next line of the log (it blocks while
\* tail has nothing new), then w.Write(line) and Flush; a failed write is
\* logged and ends the goroutine without killing tail
StreamerForward(j) ==
    /\ spc[j] = "read"
    /\ spos[j] < Len(log)
    /\ spos' = [spos EXCEPT ![j] = @ + 1]
    /\ LET line == log[spos[j] + 1]
           r == WriteHeader(resp[j], hdr[j], StatusOK)
       IN  IF pc[j] = "returned"
           THEN \* the handler has returned: the response is finished, the
                \* write races with the server's reuse of the connection
                /\ lateWrite' = [lateWrite EXCEPT ![j] = TRUE]
                /\ UNCHANGED resp
                /\ \E ok \in BOOLEAN :
                    IF ok
                    THEN /\ spc' = [spc EXCEPT ![j] = "select"]
                         /\ UNCHANGED log
                    ELSE /\ spc' = [spc EXCEPT ![j] = "exited"]
                         /\ log' = LogLine(log, "info")
           ELSE /\ UNCHANGED lateWrite
                /\ \E ok \in WriteOutcomes(j, r, 1) :
                    IF ok
                    THEN /\ resp' = [resp EXCEPT ![j] =
                                        [r EXCEPT !.lines = @ + 1,
                                                  !.diag = @ \/ line = "diag"]]
                         /\ spc' = [spc EXCEPT ![j] = "select"]
                         /\ UNCHANGED log
                    ELSE /\ resp' = [resp EXCEPT ![j] = r]
                         /\ spc' = [spc EXCEPT ![j] = "exited"]
                         /\ log' = LogLine(log, "info")
    /\ UNCHANGED <<authToken, updateAuthToken, defaultCloneBranch, pc, exit,
                   req, ctxDone, clientGone,
                   workspace, releases, proc, hdr, artifact, done, closes,
                   branch, updateVars, dirVars, server>>

\* --------------------------------------------------------------- /update
\* a variant of UpdateAuth with an in-progress flag that is set at the first
\* accepted trigger and never cleared
UpdateAuthStuck(u) ==
    /\ upc[u] = "idle"
    /\ afterUpdate' = [afterUpdate EXCEPT
                           ![u] = \E v \in Updates : script[v] = "finished"]
    /\ \E token \in AuthHeaders :
        /\ utoken' = [utoken EXCEPT ![u] = token]
        /\ IF TokenMatches(token, updateAuthToken)
              /\ \A v \in Updates : script[v] = "none"
           THEN /\ script' = [script EXCEPT ![u] = "pending"]
                /\ upc' = [upc EXCEPT ![u] = "spawned"]
                /\ UNCHANGED <<log, ustatus>>
           ELSE /\ log' = LogLine(log, "info")
                /\ ustatus' = [ustatus EXCEPT ![u] = StatusUnauthorized]
                /\ upc' = [upc EXCEPT ![u] = "returned"]
                /\ UNCHANGED script
    /\ UNCHANGED <<authToken, updateAuthToken, defaultCloneBranch, buildVars,
                   dirVars, server, ugone>>

\* updateHandler: the token check, then go func() { ... }()
UpdateAuth(u) ==
    /\ upc[u] = "idle"
    /\ afterUpdate' = [afterUpdate EXCEPT
                           ![u] = \E v \in Updates : script[v] = "finished"]
    /\ \E token \in AuthHeaders :
        /\ utoken' = [utoken EXCEPT ![u] = token]
        /\ IF TokenMatches(token, updateAuthToken)
           THEN /\ script' = [script EXCEPT ![u] = "pending"]
                /\ upc' = [upc EXCEPT ![u] = "spawned"]
                /\ UNCHANGED <<log, ustatus>>
           ELSE /\ log' = LogLine(log, "info")
                /\ ustatus' = [ustatus EXCEPT ![u] = StatusUnauthorized]
                /\ upc' = [upc EXCEPT ![u] = "returned"]
                /\ UNCHANGED script
    /\ UNCHANGED <<authToken, updateAuthToken, defaultCloneBranch, buildVars,
                   dirVars, server, ugone>>

\* a variant of UpdateReturn that waits for the script before it answers
UpdateReturnAfterScript(u) ==
    /\ upc[u] = "spawned"
    /\ script[u] = "finished"
    /\ upc' = [upc EXCEPT ![u] = "returned"]
    /\ ustatus' = [ustatus EXCEPT ![u] = StatusOK]
    /\ UNCHANGED <<authToken, updateAuthToken, defaultCloneBranch, log,
                   buildVars, dirVars, server, utoken, script,
                   afterUpdate, ugone>>

\* updateHandler returns without writing: the server answers 200, empty body
UpdateReturn(u) ==
    /\ upc[u] = "spawned"
    /\ upc' = [upc EXCEPT ![u] = "returned"]
    /\ ustatus' = [ustatus EXCEPT ![u] = StatusOK]
    /\ UNCHANGED <<authToken, updateAuthToken, defaultCloneBranch, log,
                   buildVars, dirVars, server, utoken, script,
                   afterUpdate, ugone>>

\* the goroutine: exec.Command(config.UpdateScriptPath) starts the script
ScriptStart(u) ==
    /\ script[u] = "pending"
    /\ script' = [script EXCEPT ![u] = "running"]
    /\ UNCHANGED <<authToken, updateAuthToken, defaultCloneBranch, log,
                   buildVars, dirVars, server, upc, utoken,
                   ustatus, afterUpdate, ugone>>

\* cmd.CombinedOutput returns: "Update failed" with the output, or
\* "Update completed successfully."
ScriptExit(u) ==
    /\ script[u] = "running"
    /\ script' = [script EXCEPT ![u] = "finished"]
    /\ \E ok \in BOOLEAN : log' = LogLine(log, IF ok THEN "info" ELSE "diag")
    /\ UNCHANGED <<authToken, updateAuthToken, defaultCloneBranch, buildVars,
                   dirVars, server, upc, utoken,
                   ustatus, afterUpdate, ugone>>

\* a variant of UpdateClientGone for a script started with
\* exec.CommandContext(r.Context(), ...): the cancelled context kills it
UpdateClientGoneKills(u) ==
    /\ script[u] = "running"
    /\ ~ugone[u]
    /\ ugone' = [ugone EXCEPT ![u] = TRUE]
    /\ script' = [script EXCEPT ![u] = "killed"]
    /\ UNCHANGED <<authToken, updateAuthToken, defaultCloneBranch, log,
                   buildVars, dirVars, server,
                   upc, utoken, ustatus, afterUpdate>>

\* the client of a /update request closes the connection while the script
\* runs: r.Context() is cancelled, which nothing in updateHandler or its
\* goroutine looks at
UpdateClientGone(u) ==
    /\ script[u] = "running"
    /\ ~ugone[u]
    /\ ugone' = [ugone EXCEPT ![u] = TRUE]
    /\ UNCHANGED <<authToken, updateAuthToken, defaultCloneBranch, log,
                   buildVars, dirVars, server,
                   upc, utoken, ustatus, script, afterUpdate>>

\* ------------------------------------------------- workspaces side by side
\* The use buildHandler makes of os.TempDir(), for handlers that run at the
\* same time: the build id, the directory, its removal. Between MkdirTemp and
\* the return a handler works inside its tempDir only.

\* the clock reaches the next minute
Tick ==
    /\ now < MaxMinute
    /\ now' = now + 1
    /\ UNCHANGED <<authToken, updateAuthToken, defaultCloneBranch, log,
                   buildVars, updateVars, server,
                   wpc, buildID, tempDir, tmpDirs>>

\* buildID := generateTimestampID(): time.Now() at minute resolution
GenerateTimestampID(b) ==
    /\ wpc[b] = "idle"
    /\ buildID' = [buildID EXCEPT ![b] = now]
    /\ wpc' = [wpc EXCEPT ![b] = "mkdir"]
    /\ UNCHANGED <<authToken, updateAuthToken, defaultCloneBranch, log,
                   buildVars, updateVars, server,
                   now, tempDir, tmpDirs>>

\* a variant of TempNames that uses the build id alone as the name
TempNamesFixed(id) == {<<id, 0>>}

\* the names os.MkdirTemp("", "build-"+id) can create: the pattern followed by
\* a random suffix, a name that exists being passed over for another one
TempNames(id) == {<<id, s>> : s \in Suffixes} \ tmpDirs

\* tempDir, err := os.MkdirTemp("", "build-"+buildID) and, where it fails, the
\* error return
CreateTempDir(b) ==
    /\ wpc[b] = "mkdir"
    /\ \/ \E name \in TempNames(buildID[b]) :
            /\ tmpDirs' = tmpDirs \cup {name}
            /\ tempDir' = [tempDir EXCEPT ![b] = name]
            /\ wpc' = [wpc EXCEPT ![b] = "work"]
       \/ /\ wpc' = [wpc EXCEPT ![b] = "returned"]
          /\ UNCHANGED <<tempDir, tmpDirs>>
    /\ UNCHANGED <<authToken, updateAuthToken, defaultCloneBranch, log,
                   buildVars, updateVars, server,
                   now, buildID>>

\* a return of the handler after MkdirTemp: the deferred os.RemoveAll(tempDir)
RemoveTempDir(b) ==
    /\ wpc[b] = "work"
    /\ tmpDirs' = tmpDirs \ {tempDir[b]}
    /\ wpc' = [wpc EXCEPT ![b] = "returned"]
    /\ UNCHANGED <<authToken, updateAuthToken, defaultCloneBranch, log,
                   buildVars, updateVars, server,
                   now, buildID, tempDir>>

NextWorkspace ==
    \/ Tick
    \/ \E b \in Builders :
        \/ GenerateTimestampID(b)
        \/ CreateTempDir(b)
        \/ RemoveTempDir(b)

\* ------------------------------------------------------------------- main
\* <-quit: SIGINT or SIGTERM arrives; main logs and calls srv.Shutdown under a
\* context of 5 seconds
Signal ==
    /\ server = "serving"
    /\ server' = "shutdown"
    /\ log' = LogLine(log, "info")
    /\ UNCHANGED <<authToken, updateAuthToken, defaultCloneBranch, buildVars,
                   updateVars, dirVars>>

\* srv.Shutdown returns nil once no handler is running; main logs and returns
ShutdownReturns ==
    /\ server = "shutdown"
    /\ \A j \in Jobs : ~InFlight(j)
    /\ server' = "exited"
    /\ log' = LogLine(log, "info")
    /\ UNCHANGED <<authToken, updateAuthToken, defaultCloneBranch, buildVars,
                   updateVars, dirVars>>

\* the 5 seconds pass while a handler still runs: srv.Shutdown returns the
\* context's error and log.Fatalf ends the process with os.Exit(1); no
\* deferred call runs and no goroutine takes another step
ShutdownExpires ==
    /\ server = "shutdown"
    /\ \E j \in Jobs : InFlight(j)
    /\ server' = "fatal"
    /\ log' = LogLine(log, "info")
    /\ UNCHANGED <<authToken, updateAuthToken, defaultCloneBranch, buildVars,
                   updateVars, dirVars>>

\* the process is alive: its goroutines take steps
Alive == server \in {"serving", "shutdown"}

NextBuild ==
    \E j \in Jobs :
        \/ Authenticate(j)
        \/ DecodeAndValidate(j)
        \/ MkdirTemp(j)
        \/ CloneStart(j)
        \/ CloneExit(j)
        \/ CloneKilled(j)
        \/ NpmStart(j)
        \/ NpmExit(j)
        \/ NpmKilled(j)
        \/ SelectPlatform(j)
        \/ BuildStart(j)
        \/ BuildExit(j)
        \/ BuildKilled(j)
        \/ ServeOpen(j)
        \/ CopyChunk(j)
        \/ SendError(j)
        \/ CloseAndReturn(j)
        \/ DeadlineExceeded(j)
        \/ ClientDisconnect(j)
        \/ TailStart(j)
        \/ StreamerSelect(j)
        \/ StreamerForward(j)

NextUpdate ==
    \E u \in Updates :
        \/ UpdateAuth(u)
        \/ UpdateReturn(u)
        \/ ScriptStart(u)
        \/ ScriptExit(u)
        \/ UpdateClientGone(u)

Next == NextBuild \/ NextUpdate

NextShutdown ==
    \/ Signal
    \/ ShutdownReturns
    \/ ShutdownExpires
    \/ Alive /\ NextBuild

\* the whole server
Spec == Init /\ [][Next]_vars

\* the /build endpoint alone
SpecBuild == Init /\ [][NextBuild]_vars

\* the /update endpoint alone
SpecUpdate == Init /\ [][NextUpdate]_vars

\* the /build endpoint and main's shutdown on SIGINT or SIGTERM
SpecShutdown == Init /\ [][NextShutdown]_vars

\* the /build endpoint under every value of DEFAULT_CLONE_BRANCH
SpecConfig == InitAnyBranch /\ [][NextBuild]_vars

\* the temporary directories of handlers that run side by side
SpecWorkspace == Init /\ [][NextWorkspace]_vars

\* ============================================================== claims
Returned(j) == pc[j] = "returned"
Decoded(j) == pc[j] \notin {"idle", "decode"}
NoneSpawned(j) == proc[j] = NoProcs
NoneRunning(j) ==
    /\ proc[j].git # "running"
    /\ proc[j].npm # "running"
    /\ proc[j].eas # "running"
    /\ proc[j].tail # "running"
FieldsPresent(j) ==
    /\ req[j].jsonOk
    /\ req[j].repoURL # <<>>
    /\ req[j].platform # ""
    /\ req[j].packagePath # ""

C2_UnsupportedPlatformNoFetch ==
    \A j \in Jobs :
        (Decoded(j) /\ FieldsPresent(j) /\ req[j].platform \notin {"android", "ios"}) =>
            /\ proc[j].git = "none"
            /\ proc[j].npm = "none"
            /\ Returned(j) => resp[j].status \in 400..499

C4_UpdateExclusive ==
    Cardinality({u \in Updates : script[u] = "running"}) <= 1

\* C5: a request on /build or /update whose Authorization header is missing or
\* differs from "Bearer " + the endpoint's secret is answered 401; no
\* workspace is created, no external process is spawned, no streamer is
\* started and the update script is not invoked.
C5_BadTokenUnauthorized ==
    /\ \A j \in Jobs :
        (pc[j] # "idle" /\ req[j].token # "Bearer " \o authToken) =>
            /\ Returned(j)
            /\ exit[j] = "unauthorized"
            /\ resp[j].status = StatusUnauthorized
            /\ workspace[j] = "none"
            /\ NoneSpawned(j)
            /\ spc[j] = "none"
    /\ \A u \in Updates :
        (upc[u] # "idle" /\ utoken[u] # "Bearer " \o updateAuthToken) =>
            /\ upc[u] = "returned"
            /\ ustatus[u] = StatusUnauthorized
            /\ script[u] = "none"

C5_Witness ==
    /\ \E j \in Jobs :
        /\ Returned(j)
        /\ req[j].token = "Bearer " \o updateAuthToken
        /\ resp[j].status = StatusUnauthorized
    /\ \E u \in Updates :
        /\ upc[u] = "returned"
        /\ utoken[u] = ""
        /\ ustatus[u] = StatusUnauthorized

\* C6: when the fetch, install or build step of a job fails, the status of the
\* response the client gets is 500, whatever the streamer goroutine did.
C6_StepFailureIs500 ==
    \A j \in Jobs :
        (Returned(j) /\ exit[j] \in {"fetch_failed", "install_failed", "build_failed"})
        => resp[j].status = StatusInternalServerError

\* C7: a successful android build answers with Content-Type
\* application/vnd.android.package-archive and a Content-Length equal to the
\* bytes written to the body, however many log lines the streamer forwarded.
C7_AndroidArtifactHeaders ==
    \A j \in Jobs :
        (/\ Returned(j)
         /\ exit[j] = "served"
         /\ req[j].platform = "android"
         /\ artifact[j].sent = artifact[j].size)
        => /\ resp[j].ctype = ApkType
           /\ resp[j].clen = BodyLen(resp[j])

\* C8: when the job's context is done while npm install runs, the npm process
\* is killed and the job fails: the response is 500, the build step and the
\* streamer are never started, and no process of the job runs once the handler
\* has returned after a failed install.
C8_InstallTimeoutKills ==
    \A j \in Jobs :
        /\ proc[j].npm = "killed" =>
            /\ ctxDone[j]
            /\ Returned(j)
            /\ exit[j] = "install_failed"
        /\ (Returned(j) /\ exit[j] = "install_failed") =>
            /\ resp[j].status = StatusInternalServerError
            /\ proc[j].eas = "none"
            /\ spc[j] = "none"
            /\ NoneRunning(j)
            /\ workspace[j] = "removed"

C8_Witness ==
    \E j \in Jobs :
        /\ Returned(j)
        /\ proc[j].npm = "killed"
        /\ ctxDone[j]
        /\ ~clientGone[j]
        /\ resp[j].status = StatusInternalServerError

\* C9: a build request whose repo_url contains ';' or '&' never has a git, npm,
\* eas or tail process started for it, and its job ends with an error response.
C9_InjectionGuard ==
    \A j \in Jobs :
        (Decoded(j) /\ \E i \in 1..Len(req[j].repoURL) : req[j].repoURL[i] \in {";", "&"})
        => /\ NoneSpawned(j)
           /\ spc[j] = "none"
           /\ Returned(j) =>
                /\ exit[j] \in {"bad_request", "mkdir_failed", "fetch_failed"}
                /\ resp[j].status \in {StatusBadRequest, StatusInternalServerError}
                /\ workspace[j] # "present"

C9_Witness ==
    \E j \in Jobs :
        /\ Returned(j)
        /\ req[j].repoURL = <<"&", "u">>
        /\ exit[j] = "fetch_failed"
        /\ resp[j].status = StatusInternalServerError
        /\ workspace[j] = "removed"

\* C10: the captured output of a failed clone, install or build process is
\* written to the service log only and is in no HTTP response body.
C10_NoDiagnosticsInResponse ==
    \A j \in Jobs : ~resp[j].diag

\* C11: an accepted /update request is answered 200 whatever the state of its
\* script: the handler can return as soon as the goroutine is spawned, its
\* return leaves the script alone, and the script can always go on to its end
\* after the handler has returned.
C11_UpdateAnsweredWithoutWaiting ==
    \A u \in Updates :
        /\ upc[u] = "spawned" => ENABLED UpdateReturn(u)
        /\ upc[u] = "returned" /\ utoken[u] = "Bearer " \o updateAuthToken
               => ustatus[u] = StatusOK
        /\ upc[u] = "returned" /\ script[u] = "pending" => ENABLED ScriptStart(u)
        /\ upc[u] = "returned" /\ script[u] = "running" => ENABLED ScriptExit(u)
        /\ upc[u] = "returned" /\ ustatus[u] = StatusOK => script[u] # "none"

\* the handler has answered 200 while its script is still running
C11_Witness ==
    \E u \in Updates :
        /\ upc[u] = "returned"
        /\ ustatus[u] = StatusOK
        /\ script[u] = "running"

\* the tailLogFile goroutine of job j is in its loop
StreamerRunning(j) == spc[j] \in {"select", "read"}

\* C12: while the streamer of a job runs and has not been told to stop, the
\* handler has put nothing of its own on the response: no error text and no
\* artifact bytes.
C12_ForegroundWritesAfterStop ==
    \A j \in Jobs :
        StreamerRunning(j) /\ done[j] = "open"
            => resp[j].err = 0 /\ resp[j].art = 0

\* C13: the streamer never calls w.Write on a job's response after the job's
\* handler has returned.
C13_NoStreamerWriteAfterReturn ==
    \A j \in Jobs : ~lateWrite[j]

\* the tailLogFile goroutine of job j has a step it can take
StreamerCanStep(j) ==
    ENABLED (TailStart(j) \/ StreamerSelect(j) \/ StreamerForward(j))

\* C14: once done is closed, the streamer does not come to rest before it has
\* left its loop and its tail process is gone: a streamer with no step left to
\* take (no new line in the log included) has terminated and no tail runs.
C14_StopEndsStreamer ==
    \A j \in Jobs :
        done[j] = "closed" /\ ~StreamerCanStep(j)
            => spc[j] = "exited" /\ proc[j].tail # "running"

\* C15: after the handler has returned and the streamer has run to its end,
\* none of the job's processes (git, npm, eas, tail) is running.
C15_NoProcessAfterReturn ==
    \A j \in Jobs :
        pc[j] = "returned" /\ spc[j] \in {"none", "exited"}
            => \A p \in DOMAIN proc[j] : proc[j][p] # "running"

\* C16: a handler that started the streamer and has returned, whichever return
\* it took, has closed done exactly once and run the deferred removal of the
\* workspace exactly once; neither runs before the return nor a second time.
C16_CleanupExactlyOnce ==
    \A j \in Jobs :
        /\ closes[j] <= 1 /\ releases[j] <= 1
        /\ pc[j] # "returned" => closes[j] = 0 /\ releases[j] = 0
        /\ pc[j] = "returned" /\ done[j] # "none"
               => closes[j] = 1 /\ releases[j] = 1 /\ done[j] = "closed"

\* the handler has returned through the failed open of the artifact, after one
\* close(done) and one removal of the workspace
C16_Witness ==
    \E j \in Jobs :
        /\ pc[j] = "returned"
        /\ exit[j] = "open_failed"
        /\ closes[j] = 1
        /\ releases[j] = 1

\* the processes of the three external steps, in the order of buildHandler
StepProcs == {"git", "npm", "eas"}

\* the serve step has begun: the response headers of the artifact are set
ServeStarted(j) == hdr[j] # NoHeaders

\* where each step may be, given the steps before it
StepsInOrder(j) ==
    /\ proc[j].npm # "none" => proc[j].git = "exited"
    /\ proc[j].eas # "none" => proc[j].npm = "exited"
    /\ ServeStarted(j) => proc[j].eas = "exited" /\ artifact[j].size > 0
    /\ resp[j].art > 0 => ServeStarted(j)
    /\ Cardinality({p \in StepProcs : proc[j][p] = "running"}) <= 1

\* a step that has ended is not run again, and the serve step begins once
NoStepAgain(j) ==
    /\ \A p \in StepProcs :
           proc[j][p] \notin {"none", "running"} => proc'[j][p] = proc[j][p]
    /\ ServeStarted(j) => hdr'[j] = hdr[j]

\* C17: the steps of a job run in the order fetch, install, build, serve: a
\* step's process exists only if the step before it ended with success, no two
\* run at once, and a step that has ended (with success or not) never runs a
\* second time.
C17_StepsInOrderOnce ==
    /\ [](\A j \in Jobs : StepsInOrder(j))
    /\ [][\A j \in Jobs : NoStepAgain(j)]_vars

\* all four steps have run: artifact bytes are on the response
C17_Witness ==
    \E j \in Jobs :
        /\ proc[j].git = "exited" /\ proc[j].npm = "exited" /\ proc[j].eas = "exited"
        /\ resp[j].art > 0

\* the handler waits for the process of a step
WaitingPcs == {"cloning", "installing", "building"}

\* the process the handler waits for at pc value w
StepOf(w) ==
    CASE w = "cloning" -> "git"
      [] w = "installing" -> "npm"
      [] w = "building" -> "eas"

\* the return a failure of step process p leads to
FailureOf(p) ==
    CASE p = "git" -> "fetch_failed"
      [] p = "npm" -> "install_failed"
      [] p = "eas" -> "build_failed"

\* the steps that come after the step of process p
LaterSteps(p) ==
    CASE p = "git" -> {"npm", "eas"}
      [] p = "npm" -> {"eas"}
      [] p = "eas" -> {}

\* ctx is done and the handler is waiting for a step's process
CancelledWhileRunning(j) == ctxDone[j] /\ pc[j] \in WaitingPcs

BuiltNothing(j) ==
    /\ proc[j].eas = "exited"
    /\ pc[j] # "building"
    /\ artifact[j].size = 0

Owns(b) == wpc[b] = "work"

\* C20: two handlers that hold a workspace at the same time, the same build id
\* or not, hold different directories, and the directory of a handler that
\* holds one exists: no other handler's removal has taken it away.
C20_WorkspacesDisjoint ==
    \A a \in Builders : Owns(a) =>
        /\ tempDir[a] \in tmpDirs
        /\ \A b \in Builders \ {a} : Owns(b) => tempDir[a] # tempDir[b]

\* two handlers hold their directories under one build id after a third
\* handler with the same build id has removed its own
C20_Witness ==
    \E a, b, c \in Builders :
        /\ a # b /\ a # c /\ b # c
        /\ Owns(a) /\ Owns(b)
        /\ buildID[a] = buildID[b] /\ buildID[c] = buildID[a]
        /\ wpc[c] = "returned"
        /\ tempDir[c] # <<>> /\ tempDir[c] \notin tmpDirs

\* C21: a /update request that comes in after an update script has finished,
\* with success or not, is not refused on account of that update: with the
\* right token its script is spawned and the answer is 200, and nothing keeps
\* an idle request from being handled.
C21_TriggerAcceptedAfterUpdate ==
    \A u \in Updates :
        /\ afterUpdate[u] /\ utoken[u] = "Bearer " \o updateAuthToken
               => /\ script[u] # "none"
                  /\ upc[u] = "returned" => ustatus[u] = StatusOK
        /\ ustatus[u] \in {0, StatusOK, StatusUnauthorized}
        /\ upc[u] = "idle" => ENABLED UpdateAuth(u)

\* a request that came in after a finished update was answered 200 and has
\* its own script
C21_Witness ==
    \E u \in Updates :
        /\ afterUpdate[u]
        /\ upc[u] = "returned"
        /\ ustatus[u] = StatusOK
        /\ script[u] # "none"

\* the streamer of job j has ended on a failed w.Write: it left its loop
\* without the kill of tail that the done branch does
StreamerFailed(j) == spc[j] = "exited" /\ proc[j].tail = "running"

\* the handler of job j, past the start of the streamer, has a step it can take
HandlerCanStep(j) ==
    ENABLED (\/ BuildStart(j) \/ BuildExit(j) \/ BuildKilled(j) \/ ServeOpen(j)
             \/ CopyChunk(j) \/ SendError(j) \/ CloseAndReturn(j))

\* C22: a streamer that ended on a failed write takes no further step and
\* does not stop the handler: the handler, until it has returned, always has
\* its next step to take, close(done) included once it is due, and a handler
\* that has returned has closed done once and removed its workspace once.
C22_StreamerFailureNotFatal ==
    \A j \in Jobs :
        StreamerFailed(j)
            => /\ ~StreamerCanStep(j)
               /\ pc[j] # "returned" => HandlerCanStep(j)
               /\ pc[j] = "closing" => ENABLED CloseAndReturn(j)
               /\ pc[j] = "returned"
                    => /\ done[j] = "closed"
                       /\ closes[j] = 1
                       /\ releases[j] = 1
                       /\ workspace[j] = "removed"

\* the streamer failed while the handler ran; the handler has gone on to
\* serve the artifact's bytes, has closed done and returned
C22_Witness ==
    \E j \in Jobs :
        /\ StreamerFailed(j)
        /\ ~lateWrite[j]
        /\ pc[j] = "returned"
        /\ exit[j] = "served"
        /\ resp[j].art > 0
        /\ closes[j] = 1

\* the returns buildHandler and authenticate take before go tailLogFile
EarlyExits == {"unauthorized", "bad_request", "mkdir_failed", "fetch_failed",
               "install_failed", "unsupported_platform"}

\* what holds of a job's streamer in every state
StreamerAfterInstall(j) ==
    /\ spc[j] # "none"
           => /\ proc[j].git = "exited"
              /\ proc[j].npm = "exited"
              /\ req[j].platform \in {"android", "ios"}
              /\ done[j] # "none"
    /\ spc[j] = "none" => proc[j].tail = "none" /\ resp[j].lines = 0
    /\ exit[j] \in EarlyExits
           => /\ spc[j] = "none"
              /\ ~lateWrite[j]
              /\ resp[j].lines = 0
              /\ resp[j].err = 1
              /\ resp[j].status \in {StatusBadRequest, StatusUnauthorized,
                                     StatusInternalServerError}

\* the goroutine and its tail process are started once
StreamerStartedOnce(j) ==
    /\ spc'[j] = "start" => spc[j] \in {"none", "start"}
    /\ proc'[j].tail = "running" /\ proc[j].tail # "running"
           => proc[j].tail = "none"

\* C23: a job has a streamer only after clone and install ended with success
\* and the platform was accepted, and starts it once; a job that returned
\* before that point has no streamer, and its response is the error status
\* and text with no log line in front of it.
C23_OneStreamerAfterInstall ==
    /\ [](\A j \in Jobs : StreamerAfterInstall(j))
    /\ [][\A j \in Jobs : StreamerStartedOnce(j)]_vars

\* a streamer runs and has forwarded a line
C23_Witness ==
    \E j \in Jobs :
        /\ StreamerRunning(j)
        /\ resp[j].lines > 0
        /\ proc[j].git = "exited" /\ proc[j].npm = "exited"

\* C24: when the process has ended after a termination signal, by main's
\* return or by the expiry of the shutdown wait, no job's workspace is left.
C24_NoWorkspaceAtExit ==
    server \in {"exited", "fatal"}
        => \A j \in Jobs : workspace[j] # "present"

\* C25: an update script, once spawned, is never killed or cancelled: it is
\* waiting to start, running or finished, and after the handler has returned
\* or the client has gone it still has its next step to take.
C25_UpdateOutlivesRequest ==
    \A u \in Updates :
        /\ script[u] \in {"none", "pending", "running", "finished"}
        /\ upc[u] # "idle" /\ utoken[u] = "Bearer " \o updateAuthToken
               => script[u] # "none"
        /\ (upc[u] = "returned" \/ ugone[u]) /\ script[u] = "pending"
               => ENABLED ScriptStart(u)
        /\ (upc[u] = "returned" \/ ugone[u]) /\ script[u] = "running"
               => ENABLED ScriptExit(u)

\* the handler has returned and the client has gone while the script runs
C25_Witness ==
    \E u \in Updates :
        /\ upc[u] = "returned"
        /\ ugone[u]
        /\ script[u] = "running"

\* C26: the branch a job's git clone is given is the configured default
\* clone branch, whatever DEFAULT_CLONE_BRANCH was at start.
C26_CloneBranchIsConfigured ==
    \A j \in Jobs :
        proc[j].git # "none" => branch[j] = defaultCloneBranch
====
